---- MODULE Spec2Model ----
(***************************************************************************)
(* State-machine model of the_snake.py: the Snake and Apple objects and    *)
(* the game loop of main().  Coordinates are pixel coordinates, as in the  *)
(* source: every cell is (column * GRID_SIZE, row * GRID_SIZE).            *)
(***************************************************************************)
EXTENDS Integers, Sequences, FiniteSets, TLC

\* ---- bounds of the model ------------------------------------------------
\* The field is CellsWide x CellsHigh cells (32 x 24 in the source).
CellsWide == 4
CellsHigh == 4
\* The next tick starts only while the snake has fewer than MaxSegments
\* segments.
MaxSegments == 5

\* ---- constants of the program -------------------------------------------
GRID_SIZE == 20
SCREEN_WIDTH == CellsWide * GRID_SIZE
SCREEN_HEIGHT == CellsHigh * GRID_SIZE
GRID_WIDTH == SCREEN_WIDTH \div GRID_SIZE
GRID_HEIGHT == SCREEN_HEIGHT \div GRID_SIZE

UP == <<0, -1>>
DOWN == <<0, 1>>
LEFT == <<-1, 0>>
RIGHT == <<1, 0>>
Directions == {UP, DOWN, LEFT, RIGHT}

\* Python's None (an empty tuple here: it is comparable with a pair).
None == <<>>

\* The events handle_keys acts on: QUIT, and KEYDOWN with an arrow key.  Any
\* other event changes nothing and is left out.
QUIT == "QUIT"
K_UP == "K_UP"
K_DOWN == "K_DOWN"
K_LEFT == "K_LEFT"
K_RIGHT == "K_RIGHT"
Events == {QUIT, K_UP, K_DOWN, K_LEFT, K_RIGHT}
\* The loop variable of handle_keys outside the loop.
NoEvent == "NONE"

VARIABLES
  positions,       \* snake.positions, head first
  length,          \* snake.length, the target length
  direction,       \* snake.direction
  next_direction,  \* snake.next_direction, None or a direction
  last,            \* snake.last, None or the cell the last move vacated
  apple,           \* apple.position
  pc,              \* the statement of main() that runs next
  event,           \* handle_keys: the loop variable, the event being handled
  result,          \* how the last call of move() returned
  fed,             \* food was eaten and no move has completed since
  ate              \* the last food check of main() found the head on the food

vars == <<positions, length, direction, next_direction, last, apple, pc,
          event, result, fed, ate>>

\* ---- helpers -------------------------------------------------------------
\* Every cell random.randint(0, GRID_WIDTH - 1) * GRID_SIZE can produce.
Cells == {<<x * GRID_SIZE, y * GRID_SIZE>> :
            x \in 0 .. GRID_WIDTH - 1, y \in 0 .. GRID_HEIGHT - 1}

Center == <<((SCREEN_WIDTH \div 2) \div GRID_SIZE) * GRID_SIZE,
            ((SCREEN_HEIGHT \div 2) \div GRID_SIZE) * GRID_SIZE>>

\* (-direction[0], -direction[1])
Opposite(d) == <<-d[1], -d[2]>>

\* The cells of a list, as a set.
CellsOf(ps) == {ps[i] : i \in 1 .. Len(ps)}

\* positions[2:]
Slice2(ps) == {ps[i] : i \in 3 .. Len(ps)}

\* Variant of AfterKey: a key is ignored while a direction is pending.
AfterKeyFirstWins(nd, e) ==
  IF nd # None THEN nd
  ELSE IF e = K_UP THEN UP
  ELSE IF e = K_DOWN THEN DOWN
  ELSE IF e = K_LEFT THEN LEFT
  ELSE IF e = K_RIGHT THEN RIGHT
  ELSE nd

\* handle_keys: what one KEYDOWN event does to snake.next_direction.
AfterKey(nd, e) ==
  IF e = K_UP THEN UP
  ELSE IF e = K_DOWN THEN DOWN
  ELSE IF e = K_LEFT THEN LEFT
  ELSE IF e = K_RIGHT THEN RIGHT
  ELSE nd

\* Variant of UpdatedDirection: the request is tested against the direction
\* itself in place of its opposite.
UpdatedDirectionSameTest(d, nd) ==
  IF nd # None
  THEN IF nd # d THEN nd ELSE d
  ELSE d

\* Variant of UpdatedDirection: the 180-degree test is left out.
UpdatedDirectionUnchecked(d, nd) == IF nd # None THEN nd ELSE d

\* Snake.update_direction: the direction after the call.
UpdatedDirection(d, nd) ==
  IF nd # None
  THEN IF nd # Opposite(d) THEN nd ELSE d
  ELSE d

\* Variant of ClearedNext: the request is left pending.
ClearedNextKept(nd) == nd

\* Snake.update_direction: next_direction after the call.
ClearedNext(nd) == IF nd # None THEN None ELSE nd

\* Variant of NewHead: the modulo is left out.
NewHeadUnwrapped(head, d) ==
  <<head[1] + d[1] * GRID_SIZE, head[2] + d[2] * GRID_SIZE>>

\* Snake.move: the new head, with the wrap-around.
NewHead(head, d) ==
  <<(head[1] + d[1] * GRID_SIZE) % SCREEN_WIDTH,
    (head[2] + d[2] * GRID_SIZE) % SCREEN_HEIGHT>>

\* Variant of Collides: no collision test.
CollidesNever(ps, h) == FALSE

\* Variant of Collides: the tail, which the move may pop, is not tested.
CollidesAfterTrim(ps, h) == h \in {ps[i] : i \in 3 .. Len(ps) - 1}

\* Snake.move: new_head in self.positions[2:]
Collides(ps, h) == h \in Slice2(ps)

\* Variant of Inserted: append(new_head) in place of insert(0, new_head).
InsertedAtEnd(ps, h) == ps \o <<h>>

\* Snake.move: positions.insert(0, new_head)
Inserted(ps, h) == <<h>> \o ps

\* Variant of Pops: the tail is never popped.
PopsNever(ps, len) == FALSE

\* Variant of Pops: >= in place of >.
PopsAtLength(ps, len) == Len(ps) >= len

\* Snake.move: the tail is popped when the list is longer than length.
Pops(ps, len) == Len(ps) > len

\* Variant of Front: pop(0) in place of pop().
FrontDropsHead(ps) == SubSeq(ps, 2, Len(ps))

\* Snake.move: the list after positions.pop().
Front(ps) == SubSeq(ps, 1, Len(ps) - 1)

\* Variant of FreeCells: the occupied list is not consulted.
FreeCellsAnywhere(occupied) == Cells

\* Apple.randomize_position: the cells the sampling loop can stop on.
FreeCells(occupied) == {p \in Cells : p \notin occupied}

\* Variant of HeadOnApple: no food check in a tick whose move reset the snake.
HeadOnAppleAfterMove(ps, a) == ps[1] = a /\ result # "collided"

\* main: snake.get_head_position() == apple.position
HeadOnApple(ps, a) == ps[1] = a

\* Variant of Grown: += 2 in place of += 1.
GrownByTwo(len) == len + 2

\* main: snake.length += 1
Grown(len) == len + 1

\* ---- the program ---------------------------------------------------------
\* Snake() and Apple(): Apple.__init__ calls randomize_position() with no
\* occupied list.
Init ==
  /\ positions = <<Center>>
  /\ length = 1
  /\ direction = RIGHT
  /\ next_direction = None
  /\ last = None
  /\ apple \in FreeCells({})
  /\ pc = "handle_keys"
  /\ event = NoEvent
  /\ result = "none"
  /\ fed = FALSE
  /\ ate = FALSE

\* handle_keys: one iteration of the for loop, on a KEYDOWN event.
HandleKeyDown ==
  /\ pc = "handle_keys"
  /\ \E e \in Events \ {QUIT} :
       /\ event' = e
       /\ next_direction' = AfterKey(next_direction, e)
  /\ UNCHANGED <<positions, length, direction, last, apple, pc, result, fed,
                 ate>>

\* Variant of HandleQuit: sys.exit() is left out and the loop goes on.
HandleQuitContinues ==
  /\ pc = "handle_keys"
  /\ event' = QUIT
  /\ UNCHANGED <<positions, length, direction, next_direction, last, apple,
                 pc, result, fed, ate>>

\* handle_keys: one iteration, on a QUIT event: pygame.quit(); sys.exit().
HandleQuit ==
  /\ pc = "handle_keys"
  /\ event' = QUIT
  /\ pc' = "exit"
  /\ UNCHANGED <<positions, length, direction, next_direction, last, apple,
                 result, fed, ate>>

\* handle_keys: the loop is over and the call returns.
HandleKeysReturn ==
  /\ pc = "handle_keys"
  /\ event' = NoEvent
  /\ pc' = "update_direction"
  /\ UNCHANGED <<positions, length, direction, next_direction, last, apple,
                 result, fed, ate>>

\* snake.update_direction()
UpdateDirection ==
  /\ pc = "update_direction"
  /\ direction' = UpdatedDirection(direction, next_direction)
  /\ next_direction' = ClearedNext(next_direction)
  /\ pc' = "move"
  /\ UNCHANGED <<positions, length, last, apple, event, result, fed, ate>>

\* snake.move() when the new head is on positions[2:]: reset() and return.
MoveReset ==
  /\ pc = "move"
  /\ Collides(positions, NewHead(positions[1], direction))
  /\ length' = 1
  /\ positions' = <<Center>>
  /\ direction' \in Directions
  /\ next_direction' = None
  /\ last' = None
  /\ result' = "collided"
  /\ pc' = "food"
  /\ UNCHANGED <<apple, event, fed, ate>>

\* snake.move() otherwise: insert the new head, pop the tail if too long.
MoveAdvance ==
  /\ pc = "move"
  /\ ~Collides(positions, NewHead(positions[1], direction))
  /\ LET ins == Inserted(positions, NewHead(positions[1], direction)) IN
       IF Pops(ins, length)
       THEN /\ positions' = Front(ins)
            /\ last' = ins[Len(ins)]
       ELSE /\ positions' = ins
            /\ last' = None
  /\ result' = "moved"
  /\ fed' = FALSE
  /\ pc' = "food"
  /\ UNCHANGED <<length, direction, next_direction, apple, event, ate>>

\* main: the head is on the apple: grow and move the apple to a free cell.
Eat ==
  /\ pc = "food"
  /\ HeadOnApple(positions, apple)
  /\ length' = Grown(length)
  /\ apple' \in FreeCells(CellsOf(positions))
  /\ fed' = TRUE
  /\ ate' = TRUE
  /\ pc' = "draw"
  /\ UNCHANGED <<positions, direction, next_direction, last, event,
                 result>>

\* main: the head is not on the apple.
NoEat ==
  /\ pc = "food"
  /\ ~HeadOnApple(positions, apple)
  /\ ate' = FALSE
  /\ pc' = "draw"
  /\ UNCHANGED <<positions, length, direction, next_direction, last, apple,
                 event, result, fed>>

\* main: draw the frame and wait for the next tick; no game state changes.
Draw ==
  /\ pc = "draw"
  /\ Len(positions) < MaxSegments
  /\ pc' = "handle_keys"
  /\ UNCHANGED <<positions, length, direction, next_direction, last, apple,
                 event, result, fed, ate>>

Next ==
  \/ HandleKeyDown
  \/ HandleQuit
  \/ HandleKeysReturn
  \/ UpdateDirection
  \/ MoveReset
  \/ MoveAdvance
  \/ Eat
  \/ NoEat
  \/ Draw

Spec == Init /\ [][Next]_vars

\* ---- the program under one player --------------------------------------
\* A player who presses one arrow key in every tick and never quits, and a
\* game that goes on at every number of segments.  The keys steer the head
\* along a closed route through every cell of a square field: Right, and
\* Down on the cells of every CellsWide-th diagonal.  The new head of such
\* a move is never on positions[2:], so move() never resets.

\* The key the player presses when the head is on the given cell.
RouteKey(head) ==
  IF ((head[1] + head[2]) \div GRID_SIZE) % GRID_WIDTH = GRID_WIDTH - 1
  THEN K_DOWN
  ELSE K_RIGHT

\* handle_keys: the iteration on the one KEYDOWN event of the tick.
RouteKeyDown ==
  /\ event = NoEvent
  /\ event' = RouteKey(positions[1])
  /\ HandleKeyDown

\* handle_keys: the loop is over after that event and the call returns.
RouteKeysReturn ==
  /\ event # NoEvent
  /\ HandleKeysReturn

\* main: draw the frame and wait for the next tick, at any number of segments.
DrawFrame ==
  /\ pc = "draw"
  /\ pc' = "handle_keys"
  /\ UNCHANGED <<positions, length, direction, next_direction, last, apple,
                 event, result, fed, ate>>

NextRoute ==
  \/ RouteKeyDown
  \/ RouteKeysReturn
  \/ UpdateDirection
  \/ MoveAdvance
  \/ Eat
  \/ NoEat
  \/ DrawFrame

SpecRoute == Init /\ [][NextRoute]_vars

\* ---- vocabulary of the properties ---------------------------------------
\* The centre cell of the grid, (GRID_WIDTH / 2, GRID_HEIGHT / 2) in cells.
GridCenter == <<(GRID_WIDTH \div 2) * GRID_SIZE, (GRID_HEIGHT \div 2) * GRID_SIZE>>

\* A cell of the grid: 0 <= x < grid_width and 0 <= y < grid_height.
InGrid(c) ==
  /\ \E x \in 0 .. GRID_WIDTH - 1 : c[1] = x * GRID_SIZE
  /\ \E y \in 0 .. GRID_HEIGHT - 1 : c[2] = y * GRID_SIZE

\* One coordinate moved one cell, re-entering from the opposite edge.
StepWrapped(v, dv, size) ==
  IF dv = 1 THEN (IF v = size - GRID_SIZE THEN 0 ELSE v + GRID_SIZE)
  ELSE IF dv = -1 THEN (IF v = 0 THEN size - GRID_SIZE ELSE v - GRID_SIZE)
  ELSE v

\* The cell one step from c in direction d on the wrapping grid.
Neighbour(c, d) ==
  <<StepWrapped(c[1], d[1], SCREEN_WIDTH), StepWrapped(c[2], d[2], SCREEN_HEIGHT)>>

\* The move about to run would put the head on segments[2] or a later one.
HeadHitsBody ==
  \E i \in 3 .. Len(positions) : positions[i] = Neighbour(positions[1], direction)

\* The direction a key event requests (None for any other event).
Requested(e) ==
  IF e = K_UP THEN UP
  ELSE IF e = K_DOWN THEN DOWN
  ELSE IF e = K_LEFT THEN LEFT
  ELSE IF e = K_RIGHT THEN RIGHT
  ELSE None

\* C1: right after a move that detected no collision, the number of
\* segments equals the target length.
C1_LengthAfterMove ==
  (pc = "food" /\ result = "moved") => Len(positions) = length

\* C1 witness: a move of the tick right after food was eaten has completed:
\* the snake kept its tail and has as many segments as the target length.
C1_Witness ==
  /\ pc = "food"
  /\ result = "moved"
  /\ ate
  /\ last = None
  /\ Len(positions) = length
  /\ length >= 2

\* C2: a pending request that is the exact opposite of the current direction
\* leaves the direction unchanged at the direction update, and only a move
\* that resets the snake ever turns the direction by 180 degrees.
C2_NoReversal ==
  [][/\ (pc = "update_direction" /\ next_direction = Opposite(direction))
          => direction' = direction
     /\ direction' = <<-direction[1], -direction[2]>>
          => (pc = "move" /\ result' = "collided")]_vars

\* C2 witness: a snake of one segment whose drained input asks for the exact
\* opposite of its direction, about to run the direction update.
C2_Witness ==
  /\ pc = "update_direction"
  /\ Len(positions) = 1
  /\ next_direction = <<-direction[1], -direction[2]>>

\* C3: a move whose new head would land on segments[2] or later (the list
\* as it is before any trim) detects the collision, inserts no head, and
\* leaves target length 1, segments [centre], no pending direction, no
\* vacated cell and one of the four directions.
C3_CollisionResets ==
  [][(pc = "move" /\ HeadHitsBody)
       => /\ result' = "collided"
          /\ length' = 1
          /\ positions' = <<GridCenter>>
          /\ next_direction' = None
          /\ last' = None
          /\ direction' \in {UP, DOWN, LEFT, RIGHT}]_vars

\* C3 witness: a move has just reset the snake after a collision.
C3_Witness ==
  /\ pc = "food"
  /\ result = "collided"
  /\ positions = <<GridCenter>>

\* C4: the food check is skipped in a tick whose move reset the snake: such
\* a tick ends with target length 1.
C4_ResetSkipsFood ==
  (pc = "draw" /\ result = "collided") => length = 1

\* C5 as stated: a request opposite to the current direction is dropped
\* when it is requested, so the pending direction is left as it was.
C5_DroppedAtRequest ==
  [][(/\ pc = "handle_keys"
      /\ pc' = "handle_keys"
      /\ Requested(event') # None
      /\ Requested(event') = Opposite(direction))
       => next_direction' = next_direction]_vars

\* C5 amended: every direction key overwrites the pending direction, the
\* opposite of the current direction included, so the pending direction
\* after draining is the last one requested; the opposite is rejected only
\* by the direction update, which keeps the current direction (Right, then
\* keys Up and Left: pending Left, the move goes Right).
C5_LastRequestPending ==
  [][/\ (/\ pc = "handle_keys"
         /\ pc' = "handle_keys"
         /\ Requested(event') # None)
          => next_direction' = Requested(event')
     /\ (/\ pc = "handle_keys"
         /\ pc' = "handle_keys"
         /\ direction = RIGHT
         /\ next_direction = UP
         /\ event' = K_LEFT)
          => next_direction' = LEFT
     /\ (/\ pc = "handle_keys"
         /\ pc' = "update_direction")
          => next_direction' = next_direction
     /\ (/\ pc = "update_direction"
         /\ next_direction # None)
          => direction' = IF next_direction = <<-direction[1], -direction[2]>>
                          THEN direction
                          ELSE next_direction]_vars

\* C5 witness: direction Right, and the event handled last in this call is
\* the key Left: the pending direction is Left.
C5_Witness ==
  /\ pc = "handle_keys"
  /\ direction = RIGHT
  /\ event = K_LEFT
  /\ next_direction = LEFT

\* C6: at game start the food is not on a cell the snake occupies.
C6_FoodStartsFree ==
  (result = "none" /\ pc = "handle_keys" /\ event = NoEvent)
    => \A i \in 1 .. Len(positions) : positions[i] # apple

\* C7: when the head is on the food at the food check, the food moves to a
\* cell of the grid that is none of the snake's segments.
C7_RelocatedOffSnake ==
  [][(pc = "food" /\ positions[1] = apple)
       => /\ InGrid(apple')
          /\ \A i \in 1 .. Len(positions') : positions'[i] # apple']_vars

\* C7 witness: the food has just been relocated while the snake had at
\* least three segments.
C7_Witness ==
  /\ pc = "draw"
  /\ ate
  /\ Len(positions) >= 3
  /\ apple # positions[1]

\* C8: the food check adds exactly 1 to the target length and changes the
\* food position when the head is on the food, and changes neither otherwise.
C8_FoodCheckEffect ==
  [][pc = "food"
       => IF positions[1] = apple
          THEN length' = length + 1 /\ apple' # apple
          ELSE length' = length /\ apple' = apple]_vars

\* C8 witness: a food check that found the head on the food has run after a
\* completed move.
C8_Witness ==
  /\ pc = "draw"
  /\ ate
  /\ result = "moved"
  /\ length = Len(positions) + 1

\* C9: a move that detects no collision puts the head on the neighbouring
\* cell, re-entering from the opposite edge with the other coordinate
\* unchanged, and every segment is always inside the grid.
C9_WrapAround ==
  /\ [][(pc = "move" /\ result' = "moved")
          => LET h == positions[1]
                 n == positions'[1]
             IN /\ (h[1] = SCREEN_WIDTH - GRID_SIZE /\ direction = RIGHT)
                     => n = <<0, h[2]>>
                /\ (h[1] = 0 /\ direction = LEFT)
                     => n = <<SCREEN_WIDTH - GRID_SIZE, h[2]>>
                /\ (h[2] = SCREEN_HEIGHT - GRID_SIZE /\ direction = DOWN)
                     => n = <<h[1], 0>>
                /\ (h[2] = 0 /\ direction = UP)
                     => n = <<h[1], SCREEN_HEIGHT - GRID_SIZE>>
                /\ n = Neighbour(h, direction)]_vars
  /\ [](\A i \in 1 .. Len(positions) : InGrid(positions[i]))

\* C9 witness: the head has just left the top edge going Up and is now on
\* the bottom row, its old cell being the second segment.
C9_Witness ==
  /\ pc = "food"
  /\ result = "moved"
  /\ direction = UP
  /\ Len(positions) >= 2
  /\ positions[2][2] = 0
  /\ positions[1] = <<positions[2][1], SCREEN_HEIGHT - GRID_SIZE>>

\* C10 as stated: the first move without collision after a food consumption
\* keeps the tail; every other move without collision drops it.
C10_FirstMoveAfterFood ==
  [][(pc = "move" /\ result' = "moved")
       => IF fed
          THEN /\ positions' = <<positions'[1]>> \o positions
               /\ last' = None
          ELSE /\ positions' =
                    <<positions'[1]>> \o SubSeq(positions, 1, Len(positions) - 1)
               /\ last' = positions[Len(positions)]]_vars

\* C10 amended: the move without collision of the tick that directly follows
\* a food consumption keeps the tail, records no vacated cell and adds one
\* segment; every other move without collision vacates exactly the previous
\* tail and keeps the segment count (a consumption followed by a collision
\* reset is forgotten).
C10_DeferredGrowth ==
  [][(pc = "move" /\ result' = "moved")
       => IF ate
          THEN /\ positions' = <<positions'[1]>> \o positions
               /\ last' = None
               /\ Len(positions') = Len(positions) + 1
          ELSE /\ positions' =
                    <<positions'[1]>> \o SubSeq(positions, 1, Len(positions) - 1)
               /\ last' = positions[Len(positions)]
               /\ Len(positions') = Len(positions)]_vars

\* C10 witness: a move has grown a snake of at least two segments by one.
C10_Witness ==
  /\ pc = "food"
  /\ result = "moved"
  /\ ate
  /\ last = None
  /\ Len(positions) >= 3

\* C11: a move of a snake with one segment and target length 1, at any cell
\* and in any direction, leaves the single segment on the neighbouring cell
\* (with wrap-around), target length 1 and the old cell as the vacated cell;
\* the first move of the game, with no input, puts the head one cell to the
\* right of the grid centre and vacates the centre.
C11_SingleSegmentMove ==
  [][/\ (pc = "move" /\ Len(positions) = 1 /\ length = 1)
          => /\ result' = "moved"
             /\ positions' = <<Neighbour(positions[1], direction)>>
             /\ length' = 1
             /\ last' = positions[1]
     /\ (pc = "move" /\ result = "none" /\ direction = RIGHT)
          => /\ positions' = <<<<GridCenter[1] + GRID_SIZE, GridCenter[2]>>>>
             /\ length' = 1
             /\ last' = GridCenter]_vars

\* C11 witness: the first move of the game has run with no input: the head
\* is one cell to the right of the centre and the centre is vacated.
C11_Witness ==
  /\ pc = "food"
  /\ result = "moved"
  /\ direction = RIGHT
  /\ length = 1
  /\ positions = <<<<GridCenter[1] + GRID_SIZE, GridCenter[2]>>>>
  /\ last = GridCenter
  /\ ~fed
  /\ ~ate

\* C12: whenever the food check finds the head on the food, so that the food
\* is relocated, at least one cell of the grid is none of the snake's
\* segments (the sampling loop can then stop and the tick completes).
C12_FreeCellAtRelocation ==
  (pc = "food" /\ positions[1] = apple)
    => \E x \in 0 .. GRID_WIDTH - 1, y \in 0 .. GRID_HEIGHT - 1 :
         \A i \in 1 .. Len(positions) :
           positions[i] # <<x * GRID_SIZE, y * GRID_SIZE>>

\* C13: every key event handled before a Quit sets the pending direction to
\* its request, in the order of arrival; handling Quit ends the process at
\* once and changes nothing of the snake or the food, and an ended process
\* takes no further step (no later event, direction update, move, food check
\* or relocation).
C13_QuitStops ==
  [][/\ (pc = "handle_keys" /\ event' = QUIT)
          => /\ pc' = "exit"
             /\ UNCHANGED <<positions, length, direction, next_direction,
                            last, apple>>
     /\ (pc = "handle_keys" /\ event' # QUIT /\ Requested(event') # None)
          => /\ next_direction' = Requested(event')
             /\ pc' = "handle_keys"
     /\ pc = "exit" => FALSE
     /\ pc' = "exit" => (pc = "handle_keys" /\ event' = QUIT)]_vars

\* C13 witness: the process has ended on a Quit that came after the key Up in
\* the same call: Up is the recorded request, and it was never applied.
C13_Witness ==
  /\ pc = "exit"
  /\ event = QUIT
  /\ next_direction = UP
  /\ direction = RIGHT
  /\ Len(positions) >= 2

\* C14: between the direction update of a tick and the end of the tick, and
\* at the start of every tick before any event is handled, there is no
\* pending direction (also after a reset).
C14_PendingCleared ==
  /\ pc \in {"move", "food", "draw"} => next_direction = None
  /\ (pc = "handle_keys" /\ event = NoEvent) => next_direction = None

\* C14 witness: the direction update of this tick has just applied a request
\* (the direction is no longer the one the snake last moved in) and nothing
\* is pending.
C14_Witness ==
  /\ pc = "move"
  /\ Len(positions) >= 2
  /\ positions[1] # Neighbour(positions[2], direction)
  /\ next_direction = None

\* C15: the segments are pairwise distinct cells, and the vacated cell, when
\* one is recorded, is none of the segments.
C15_SegmentsDistinct ==
  /\ \A i, j \in 1 .. Len(positions) : i # j => positions[i] # positions[j]
  /\ last # None => \A i \in 1 .. Len(positions) : positions[i] # last

\* C15 witness: a snake of at least four segments has just moved and vacated
\* its previous tail, the cell next to its tail.
C15_Witness ==
  /\ pc = "food"
  /\ result = "moved"
  /\ Len(positions) >= 4
  /\ last # None
  /\ \E d \in Directions : Neighbour(positions[Len(positions)], d) = last

\* C16: after the food check of a tick the food is on none of the segments.
C16_FoodOffSnake ==
  pc = "draw" => \A i \in 1 .. Len(positions) : positions[i] # apple

\* C16 witness: the move of this tick reset the snake onto the food, and the
\* food check has moved the food off the centre.
C16_Witness ==
  /\ pc = "draw"
  /\ result = "collided"
  /\ ate
  /\ positions = <<GridCenter>>
  /\ apple # GridCenter

\* C17: a move that resets the snake starts from at least 4 segments, and a
\* move that does not reset never puts the head on the cell of segments[1].
C17_CollisionNeedsFour ==
  [][/\ (pc = "move" /\ result' = "collided") => Len(positions) >= 4
     /\ (pc = "move" /\ Len(positions) <= 3) => result' = "moved"
     /\ (pc = "move" /\ result' = "moved" /\ Len(positions) >= 2)
          => positions'[1] # positions[2]]_vars

\* C17 witness: a tick whose move reset the snake ends with the food where
\* it was.
C17_Witness ==
  /\ pc = "draw"
  /\ result = "collided"
  /\ ~ate
  /\ Len(positions) = 1

\* C18: every segment is one grid step (with wrap-around) from the next one
\* in the list, and outside the span between the direction update and the
\* move the second segment is the head's neighbour against the direction.
C18_BodyContiguous ==
  /\ \A i \in 1 .. Len(positions) - 1 :
       \E d \in {UP, DOWN, LEFT, RIGHT} :
         positions[i] = Neighbour(positions[i + 1], d)
  /\ (pc # "move" /\ Len(positions) >= 2)
       => positions[2] = Neighbour(positions[1], <<-direction[1], -direction[2]>>)

\* C18 witness: a snake of four segments has just crossed the right edge: the
\* head is in the first column and the second segment in the last one.
C18_Witness ==
  /\ pc = "draw"
  /\ Len(positions) = 4
  /\ direction = RIGHT
  /\ positions[1][1] = 0
  /\ positions[2][1] = SCREEN_WIDTH - GRID_SIZE
====
